---- MODULE Spec2Model ----
(***************************************************************************)
(* RAGEvaluator (Streamlit_App/evaluation_module.py): a facade over        *)
(* external scoring libraries.  The state is the evaluator object (its     *)
(* model handles), the process-wide NLTK resource store, and the position  *)
(* of the one synchronous caller inside __init__ / evaluate_all.           *)
(*                                                                         *)
(* Numbers that are floats in the program are integers in hundredths here  *)
(* (0.8 is 80); the one exact ratio the code computes itself, the          *)
(* diversity score, is kept as a fraction [num, den].                      *)
(***************************************************************************)
EXTENDS Integers, Sequences, FiniteSets, TLC

VARIABLES
    pc,          \* where the caller is: "new", "L18".."L22", "ready", "L204".."L219", "returned", "raised", "init_failed"
    self,        \* the evaluator's attributes (model handles)
    loads,       \* how many times each capability has been loaded from its pretrained source
    punkt,       \* process-wide: the NLTK 'punkt' resource is installed
    op,          \* the public method the caller is in ("" when none)
    args,        \* that method's arguments
    locals,      \* evaluate_all's local variables assigned so far
    invoked,     \* the metric methods evaluate_all has invoked so far, in order, with arguments
    pipeline_out,\* the last output of self.toxicity_pipeline(text)[0]
    result,      \* the value the method returned (meaningful when pc = "returned")
    error        \* the method whose failure propagated (meaningful when pc = "raised")

vars == <<pc, self, loads, punkt, op, args, locals, invoked, pipeline_out, result, error>>

----------------------------------------------------------------------------
(* Bounds of the model *)

MaxChars == 4        \* longest text handed to evaluate_diversity
MaxTexts == 2        \* longest list of texts handed to evaluate_diversity
MaxTokens == 1600    \* longest token sequence handed to evaluate_perplexity

Alphabet == {"a", " "}
SeqsUpTo(S, n) == UNION {[1..k -> S] : k \in 0..n}

\* Inputs of the diversity check: lists of short strings.
DiversityTexts == SeqsUpTo(Alphabet, MaxChars)
DiversityInputs == SeqsUpTo(DiversityTexts, MaxTexts)

\* Inputs of the perplexity check: one text per token count.
LongText(n) == [i \in 1..n |-> "a"]
PerplexityInputs == {LongText(n) : n \in 0..MaxTokens}

\* Texts the facade as a whole is exercised with: the empty string and "a".
FacadeTexts == {<<>>, <<"a">>}

\* Values an external scorer may return (hundredths).  The scorers are not
\* interpreted: each call returns one of two representative results.
Scores == {0, 100}
ScorePairs == {<<s, s>> : s \in Scores}
ScoreTriples == {<<s, s, s>> : s \in Scores}
\* Sentence embeddings the encoder may assign to a text.
Vectors == {<<1, 0>>, <<4, 3>>, <<1, 1>>, <<0, 1>>}
Encoders == [FacadeTexts -> Vectors]
\* Thresholds a caller may pass (hundredths).
Thresholds == {60, 70, 80, 100}

----------------------------------------------------------------------------
(* Helpers *)

RECURSIVE SumSeq(_)
SumSeq(s) == IF s = <<>> THEN 0 ELSE Head(s) + SumSeq(Tail(s))

RECURSIVE Flatten(_)
Flatten(ss) == IF ss = <<>> THEN <<>> ELSE Head(ss) \o Flatten(Tail(ss))

Min(a, b) == IF a <= b THEN a ELSE b
Max(a, b) == IF a >= b THEN a ELSE b

IsWhitespace(c) == c = " "

\* str.split(): the maximal runs of non-whitespace characters, in order.
RECURSIVE SplitFrom(_, _, _)
SplitFrom(text, i, cur) ==
    IF i > Len(text)
    THEN IF cur = <<>> THEN <<>> ELSE <<cur>>
    ELSE IF IsWhitespace(text[i])
         THEN (IF cur = <<>> THEN <<>> ELSE <<cur>>) \o SplitFrom(text, i + 1, <<>>)
         ELSE SplitFrom(text, i + 1, Append(cur, text[i]))

split(text) == SplitFrom(text, 1, <<>>)

\* nltk.util.ngrams(tokens, 2): the adjacent pairs, in order.
ngrams2(tokens) == [i \in 1..Max(Len(tokens) - 1, 0) |-> <<tokens[i], tokens[i + 1]>>]

SeqToSet(s) == {s[i] : i \in DOMAIN s}

----------------------------------------------------------------------------
(* evaluate_diversity (lines 59-63) *)

all_tokens(texts) == Flatten([k \in DOMAIN texts |-> split(texts[k])])

\* Variant: counts distinct tokens (ngrams of order 1) instead of bigrams.
unique_unigrams(texts) == SeqToSet([i \in DOMAIN all_tokens(texts) |-> <<all_tokens(texts)[i]>>])

unique_bigrams(texts) == SeqToSet(ngrams2(all_tokens(texts)))

evaluate_diversity(texts) ==
    IF all_tokens(texts) # <<>>
    THEN [num |-> Cardinality(unique_bigrams(texts)), den |-> Len(all_tokens(texts))]
    ELSE [num |-> 0, den |-> 1]

----------------------------------------------------------------------------
(* evaluate_perplexity (lines 40-57) *)

stride == 512
\* self.gpt2_model.config.n_positions of the pretrained 'gpt2' checkpoint
max_length == 1024

\* self.gpt2_tokenizer(text).input_ids.size(1): byte-level tokens, one per character.
gpt2_tokenizer(text) == Len(text)

\* outputs[0] of self.gpt2_model(input_ids, labels=target_ids): the mean negative
\* log-likelihood of the scored tokens; the language model scores every token 1.00.
gpt2_model_loss(input_len, trg_len) == 100

\* Variant: every window scores all of its tokens (trg_len is the window length).
Window_ScoresWholeWindow(i, n) ==
    LET begin_loc == Max(i + stride - max_length, 0)
        end_loc   == Min(i + stride, n)
        trg_len   == end_loc - begin_loc
    IN [i |-> i, begin_loc |-> begin_loc, end_loc |-> end_loc, trg_len |-> trg_len,
        log_likelihood |-> gpt2_model_loss(end_loc - begin_loc, trg_len) * trg_len]

\* One pass of the loop body for loop variable i over n tokens.
Window(i, n) ==
    LET begin_loc == Max(i + stride - max_length, 0)
        end_loc   == Min(i + stride, n)
        trg_len   == end_loc - i
    IN [i |-> i, begin_loc |-> begin_loc, end_loc |-> end_loc, trg_len |-> trg_len,
        log_likelihood |-> gpt2_model_loss(end_loc - begin_loc, trg_len) * trg_len]

\* for i in range(0, n, stride): the windows in order.
RECURSIVE WindowsFrom(_, _)
WindowsFrom(i, n) ==
    IF i >= n THEN <<>> ELSE <<Window(i, n)>> \o WindowsFrom(i + stride, n)

Windows(n) == WindowsFrom(0, n)

\* torch.stack(lls) raises on an empty list (and end_loc is unbound then).
evaluate_perplexity(text) ==
    LET n   == gpt2_tokenizer(text)
        ws  == Windows(n)
        lls == [k \in DOMAIN ws |-> ws[k].log_likelihood]
    IN IF lls = <<>>
       THEN [raised |-> TRUE, value |-> 0]
       ELSE [raised |-> FALSE, value |-> SumSeq(lls) \div ws[Len(ws)].end_loc]

----------------------------------------------------------------------------
(* Outcomes of a call: it raises, or it returns a value.  Every evaluate_*   *)
(* operator below is the set of outcomes the call can have.                 *)

Returns(v) == [raised |-> FALSE, value |-> v]
Raises(v)  == [raised |-> TRUE, value |-> v]

\* zip(references, candidates): as many pairs as the shorter list.
zip_len(references, candidates) == Min(Len(references), Len(candidates))

\* evaluate_bleu_rouge (lines 29-34): corpus_bleu(...).score and the mean
\* rouge1 f-measure; the mean divides by len(rouge_scores).
evaluate_bleu_rouge(candidates, references) ==
    {Raises(<<0, 0>>)} \cup
    (IF zip_len(references, candidates) = 0 THEN {}
     ELSE {Returns(<<pair[1], pair[2]>>) : pair \in ScorePairs})

\* evaluate_bert_score (lines 36-38): the means of P, R and F1.
evaluate_bert_score(candidates, references) ==
    {Raises(<<0, 0, 0>>)} \cup {Returns(<<PRF[1], PRF[2], PRF[3]>>) : PRF \in ScoreTriples}

\* self.bias_pipeline([text], candidate_labels=[...])[0]: the two labels, highest
\* score first, with scores that sum to 1.
bias_pipeline(text) ==
    {IF h >= 100 - h
     THEN [labels |-> <<"hate speech", "not hate speech">>, scores |-> <<h, 100 - h>>]
     ELSE [labels |-> <<"not hate speech", "hate speech">>, scores |-> <<100 - h, h>>]
     : h \in Scores}

\* list.index(x): the first position holding x.
index(list, x) == CHOOSE i \in DOMAIN list : list[i] = x /\ \A j \in 1..(i - 1) : list[j] # x

\* evaluate_racial_bias (lines 65-68)
evaluate_racial_bias(text) ==
    {Raises(0)} \cup
    {Returns(results.scores[index(results.labels, "hate speech")]) : results \in bias_pipeline(text)}

\* evaluate_meteor (lines 70-77): nltk.download('punkt', quiet=True) installs the
\* resource when it can and reports failure without raising; word_tokenize raises
\* LookupError without the resource; the mean divides by len(meteor_scores).  The
\* outcome carries the resource store as the call leaves it.
evaluate_meteor(candidates, references) ==
    UNION {
        {[raised |-> TRUE, value |-> 0, punkt |-> installed]} \cup
        (IF installed /\ zip_len(references, candidates) # 0
         THEN {[raised |-> FALSE, value |-> m, punkt |-> installed] : m \in Scores}
         ELSE {})
        : installed \in {punkt, TRUE}}

\* evaluate_chrf (lines 79-81)
evaluate_chrf(candidates, references) ==
    {Raises(0)} \cup
    (IF zip_len(references, candidates) = 0 THEN {}
     ELSE {Returns(c) : c \in Scores})

\* evaluate_readability (lines 83-86)
evaluate_readability(text) ==
    {Raises(<<0, 0>>)} \cup
    {Returns(<<pair[1], pair[2]>>) : pair \in ScorePairs}

----------------------------------------------------------------------------
(* Semantic similarity and the checks thresholding it (lines 88-145, 160-198) *)

Dot(u, v) == u[1] * v[1] + u[2] * v[2]

\* c / 100 <= d / sqrt(n), in integers
AtMostCosine(c, d, n) ==
    IF c >= 0 THEN d >= 0 /\ c * c * n <= 10000 * d * d
    ELSE d >= 0 \/ c * c * n >= 10000 * d * d

\* sklearn cosine_similarity of two vectors, rounded down to hundredths.
cosine_similarity(u, v) ==
    LET d == Dot(u, v)
        n == Dot(u, u) * Dot(v, v)
    IN CHOOSE c \in -100..100 :
          /\ AtMostCosine(c, d, n)
          /\ (c = 100 \/ ~AtMostCosine(c + 1, d, n))

\* The value evaluate_semantic_similarity returns when the encoder does not fail.
similarity(candidate, reference) ==
    LET embeddings == <<self.sentence_transformer[candidate], self.sentence_transformer[reference]>>
    IN cosine_similarity(embeddings[1], embeddings[2])

evaluate_semantic_similarity(candidate, reference) ==
    {Raises(0), Returns(similarity(candidate, reference))}

factual_consistency_threshold == 80
question_relevance_threshold == 70
context_relevance_threshold == 70
answer_relevance_threshold == 70

\* Variant: the boundary value does not count (similarity > threshold).
evaluate_factual_consistency_strict(candidate, reference, threshold) ==
    {IF o.raised THEN Raises(FALSE) ELSE Returns(o.value > threshold)
     : o \in evaluate_semantic_similarity(candidate, reference)}

evaluate_factual_consistency(candidate, reference, threshold) ==
    {IF o.raised THEN Raises(FALSE) ELSE Returns(o.value >= threshold)
     : o \in evaluate_semantic_similarity(candidate, reference)}

evaluate_question_relevance(question, response, threshold) ==
    {IF o.raised THEN Raises(FALSE) ELSE Returns(o.value >= threshold)
     : o \in evaluate_semantic_similarity(question, response)}

evaluate_context_relevance(context, response, threshold) ==
    {IF o.raised THEN Raises(FALSE) ELSE Returns(o.value >= threshold)
     : o \in evaluate_semantic_similarity(context, response)}

evaluate_answer_relevance(question, response, threshold) ==
    {IF o.raised THEN Raises(FALSE) ELSE Returns(o.value >= threshold)
     : o \in evaluate_semantic_similarity(question, response)}

----------------------------------------------------------------------------
(* evaluate_toxicity (lines 147-158) *)

\* Labels of the unitary/toxic-bert classifier, as character sequences.
toxic == <<"t", "o", "x", "i", "c">>
ToxicBertLabels == {
    toxic,
    <<"s", "e", "v", "e", "r", "e", "_">> \o toxic,
    <<"i", "n", "s", "u", "l", "t">> }
ClassifierScores == {0, 50, 100}

\* self.toxicity_pipeline(text)[0]: the top label and its score.
toxicity_pipeline(text) == [label : ToxicBertLabels, score : ClassifierScores]

\* Variant: the label must be exactly the needle.
in_equal(needle, haystack) == needle = haystack

\* needle in haystack, for strings
in(needle, haystack) ==
    \E k \in 0..(Len(haystack) - Len(needle)) :
        SubSeq(haystack, k + 1, k + Len(needle)) = needle

\* The return expression of evaluate_toxicity (line 158).
toxicity_score(res) == IF in(toxic, res.label) THEN res.score ELSE 0

\* The outcome carries the classifier's output beside the returned value.
evaluate_toxicity(text) ==
    {[raised |-> TRUE, value |-> 0, out |-> [label |-> <<>>, score |-> 0]]} \cup
    {[raised |-> FALSE, value |-> toxicity_score(res), out |-> res] : res \in toxicity_pipeline(text)}

----------------------------------------------------------------------------
(* State after the module is imported and before RAGEvaluator() is called *)

Capabilities == {"gpt2_model", "gpt2_tokenizer", "bias_pipeline",
                 "sentence_transformer", "toxicity_pipeline"}

NoValue == <<>>
NoPipelineOutput == [label |-> <<>>, score |-> 0]

Idle ==
    /\ op = ""
    /\ args = <<>>
    /\ locals = <<>>
    /\ invoked = <<>>
    /\ pipeline_out = NoPipelineOutput
    /\ result = NoValue
    /\ error = ""

Init ==
    /\ pc = "new"
    /\ self = [gpt2_model |-> "", gpt2_tokenizer |-> "", bias_pipeline |-> "",
               sentence_transformer |-> <<>>, toxicity_pipeline |-> ""]
    /\ loads = [c \in Capabilities |-> 0]
    /\ punkt \in BOOLEAN
    /\ Idle

----------------------------------------------------------------------------
(* __init__ (lines 17-22) and load_gpt2_model (lines 24-27).  Loading a      *)
(* pretrained model may fail; the failure leaves the constructor.           *)

InitFails(line) ==
    /\ pc = line
    /\ pc' = "init_failed"
    /\ error' = "__init__"
    /\ UNCHANGED <<self, loads, punkt, op, args, locals, invoked, pipeline_out, result>>

\* GPT2LMHeadModel.from_pretrained('gpt2'), GPT2Tokenizer.from_pretrained('gpt2')
load_gpt2_model(line, next) ==
    /\ pc = line
    /\ loads' = [loads EXCEPT !["gpt2_model"] = @ + 1, !["gpt2_tokenizer"] = @ + 1]
    /\ self' = [self EXCEPT !.gpt2_model = "gpt2", !.gpt2_tokenizer = "gpt2"]
    /\ pc' = next
    /\ UNCHANGED <<punkt, op, args, locals, invoked, pipeline_out, result, error>>

New ==
    /\ pc = "new"
    /\ pc' = "L18"
    /\ op' = "__init__"
    /\ UNCHANGED <<self, loads, punkt, args, locals, invoked, pipeline_out, result, error>>

L18 == load_gpt2_model("L18", "L19")

L19 ==
    /\ pc = "L19"
    /\ loads' = [loads EXCEPT !["bias_pipeline"] = @ + 1]
    /\ self' = [self EXCEPT !.bias_pipeline = "Hate-speech-CNERG/dehatebert-mono-english"]
    /\ pc' = "L20"
    /\ UNCHANGED <<punkt, op, args, locals, invoked, pipeline_out, result, error>>

L20 == load_gpt2_model("L20", "L21")

L21 ==
    /\ pc = "L21"
    /\ loads' = [loads EXCEPT !["sentence_transformer"] = @ + 1]
    /\ \E encoder \in Encoders : self' = [self EXCEPT !.sentence_transformer = encoder]
    /\ pc' = "L22"
    /\ UNCHANGED <<punkt, op, args, locals, invoked, pipeline_out, result, error>>

L22 ==
    /\ pc = "L22"
    /\ loads' = [loads EXCEPT !["toxicity_pipeline"] = @ + 1]
    /\ self' = [self EXCEPT !.toxicity_pipeline = "unitary/toxic-bert"]
    /\ pc' = "ready"
    /\ op' = ""
    /\ UNCHANGED <<punkt, args, locals, invoked, pipeline_out, result, error>>

LoadFails == \E line \in {"L18", "L19", "L20", "L21", "L22"} : InitFails(line)

----------------------------------------------------------------------------
(* evaluate_all (lines 201-238) *)

\* Variant: a failure is caught and what was computed so far is handed back.
Propagate_WithPartialReport(name) ==
    /\ pc' = "raised"
    /\ error' = name
    /\ result' = locals
    /\ locals' = <<>>

\* No except clause anywhere: a failure leaves evaluate_all at once, and its
\* locals are gone with its frame.
Propagate(name) ==
    /\ pc' = "raised"
    /\ error' = name
    /\ locals' = <<>>
    /\ UNCHANGED result

\* a, b = value  /  a = value
Assign(l, targets, value) ==
    IF Len(targets) = 1
    THEN l @@ (targets[1] :> value)
    ELSE l @@ [name \in SeqToSet(targets) |-> value[index(targets, name)]]

\* One line "targets = self.name(a)" of evaluate_all.
MetricStep(line, next, name, a, outcomes, targets) ==
    /\ pc = line
    /\ invoked' = Append(invoked, [op |-> name, args |-> a])
    /\ \E o \in outcomes :
         IF o.raised
         THEN Propagate(name)
         ELSE /\ locals' = Assign(locals, targets, o.value)
              /\ pc' = next
              /\ UNCHANGED <<result, error>>
    /\ UNCHANGED <<self, loads, op, args>>

Call_evaluate_all ==
    /\ pc = "ready"
    /\ \E question \in FacadeTexts, response \in FacadeTexts, reference \in FacadeTexts :
         /\ args' = [question |-> question, response |-> response, reference |-> reference]
         /\ locals' = [candidates |-> <<response>>, references |-> <<reference>>]
    /\ op' = "evaluate_all"
    /\ pc' = "L204"
    /\ UNCHANGED <<self, loads, punkt, invoked, pipeline_out, result, error>>

L204 ==
    /\ MetricStep("L204", "L205", "evaluate_bleu_rouge", <<locals.candidates, locals.references>>,
                  evaluate_bleu_rouge(locals.candidates, locals.references), <<"bleu", "rouge1">>)
    /\ UNCHANGED <<punkt, pipeline_out>>

L205 ==
    /\ MetricStep("L205", "L206", "evaluate_bert_score", <<locals.candidates, locals.references>>,
                  evaluate_bert_score(locals.candidates, locals.references),
                  <<"bert_p", "bert_r", "bert_f1">>)
    /\ UNCHANGED <<punkt, pipeline_out>>

L206 ==
    /\ MetricStep("L206", "L207", "evaluate_perplexity", <<args.response>>,
                  {evaluate_perplexity(args.response)}, <<"perplexity">>)
    /\ UNCHANGED <<punkt, pipeline_out>>

L207 ==
    /\ MetricStep("L207", "L208", "evaluate_diversity", <<locals.candidates>>,
                  {Returns(evaluate_diversity(locals.candidates))}, <<"diversity">>)
    /\ UNCHANGED <<punkt, pipeline_out>>

L208 ==
    /\ MetricStep("L208", "L209", "evaluate_racial_bias", <<args.response>>,
                  evaluate_racial_bias(args.response), <<"racial_bias">>)
    /\ UNCHANGED <<punkt, pipeline_out>>

L209 ==
    /\ pc = "L209"
    /\ invoked' = Append(invoked, [op |-> "evaluate_meteor",
                                   args |-> <<locals.candidates, locals.references>>])
    /\ \E o \in evaluate_meteor(locals.candidates, locals.references) :
         /\ punkt' = o.punkt
         /\ IF o.raised
            THEN Propagate("evaluate_meteor")
            ELSE /\ locals' = Assign(locals, <<"meteor">>, o.value)
                 /\ pc' = "L210"
                 /\ UNCHANGED <<result, error>>
    /\ UNCHANGED <<self, loads, op, args, pipeline_out>>

L210 ==
    /\ MetricStep("L210", "L211", "evaluate_chrf", <<locals.candidates, locals.references>>,
                  evaluate_chrf(locals.candidates, locals.references), <<"chrf">>)
    /\ UNCHANGED <<punkt, pipeline_out>>

L211 ==
    /\ MetricStep("L211", "L212", "evaluate_readability", <<args.response>>,
                  evaluate_readability(args.response), <<"flesch_ease", "flesch_grade">>)
    /\ UNCHANGED <<punkt, pipeline_out>>

L212 ==
    /\ MetricStep("L212", "L213", "evaluate_semantic_similarity", <<args.response, args.reference>>,
                  evaluate_semantic_similarity(args.response, args.reference),
                  <<"semantic_similarity">>)
    /\ UNCHANGED <<punkt, pipeline_out>>

L213 ==
    /\ MetricStep("L213", "L214", "evaluate_factual_consistency", <<args.response, args.reference>>,
                  evaluate_factual_consistency(args.response, args.reference,
                                               factual_consistency_threshold),
                  <<"factual_consistency">>)
    /\ UNCHANGED <<punkt, pipeline_out>>

L214 ==
    /\ MetricStep("L214", "L215", "evaluate_question_relevance", <<args.question, args.response>>,
                  evaluate_question_relevance(args.question, args.response,
                                              question_relevance_threshold),
                  <<"question_relevance">>)
    /\ UNCHANGED <<punkt, pipeline_out>>

\* Variant: Context Relevance computed through evaluate_context_relevance.
L215_ThroughContextRelevance ==
    /\ MetricStep("L215", "L216", "evaluate_context_relevance", <<args.reference, args.response>>,
                  evaluate_context_relevance(args.reference, args.response,
                                             context_relevance_threshold),
                  <<"context_relevance">>)
    /\ UNCHANGED <<punkt, pipeline_out>>

L215 ==
    /\ MetricStep("L215", "L216", "evaluate_question_relevance", <<args.reference, args.response>>,
                  evaluate_question_relevance(args.reference, args.response,
                                              question_relevance_threshold),
                  <<"context_relevance">>)
    /\ UNCHANGED <<punkt, pipeline_out>>

L216 ==
    /\ MetricStep("L216", "L217", "evaluate_question_relevance", <<args.question, args.response>>,
                  evaluate_question_relevance(args.question, args.response,
                                              question_relevance_threshold),
                  <<"answer_relevance">>)
    /\ UNCHANGED <<punkt, pipeline_out>>

L217 ==
    /\ pc = "L217"
    /\ invoked' = Append(invoked, [op |-> "evaluate_toxicity", args |-> <<args.response>>])
    /\ \E o \in evaluate_toxicity(args.response) :
         /\ pipeline_out' = o.out
         /\ IF o.raised
            THEN Propagate("evaluate_toxicity")
            ELSE /\ locals' = Assign(locals, <<"toxicity">>, o.value)
                 /\ pc' = "L219"
                 /\ UNCHANGED <<result, error>>
    /\ UNCHANGED <<self, loads, punkt, op, args>>

\* Variant: the dict literal without its last entry.
Report_WithoutToxicity(l) ==
    [k \in {"BLEU", "ROUGE-1", "BERT P", "BERT R", "BERT F1", "Perplexity", "Diversity",
            "Racial Bias", "METEOR", "CHRF", "Flesch Reading Ease", "Flesch-Kincaid Grade",
            "Semantic Similarity", "Factual Consistency", "Question Relevance",
            "Context Relevance", "Answer Relevance"} |->
        CASE k = "BLEU" -> l["bleu"]
          [] k = "ROUGE-1" -> l["rouge1"]
          [] k = "BERT P" -> l["bert_p"]
          [] k = "BERT R" -> l["bert_r"]
          [] k = "BERT F1" -> l["bert_f1"]
          [] k = "Perplexity" -> l["perplexity"]
          [] k = "Diversity" -> l["diversity"]
          [] k = "Racial Bias" -> l["racial_bias"]
          [] k = "METEOR" -> l["meteor"]
          [] k = "CHRF" -> l["chrf"]
          [] k = "Flesch Reading Ease" -> l["flesch_ease"]
          [] k = "Flesch-Kincaid Grade" -> l["flesch_grade"]
          [] k = "Semantic Similarity" -> l["semantic_similarity"]
          [] k = "Factual Consistency" -> l["factual_consistency"]
          [] k = "Question Relevance" -> l["question_relevance"]
          [] k = "Context Relevance" -> l["context_relevance"]
          [] OTHER -> l["answer_relevance"]]

\* The dict literal of the return statement (lines 219-238).
Report(l) ==
    ("BLEU" :> l["bleu"]) @@
    ("ROUGE-1" :> l["rouge1"]) @@
    ("BERT P" :> l["bert_p"]) @@
    ("BERT R" :> l["bert_r"]) @@
    ("BERT F1" :> l["bert_f1"]) @@
    ("Perplexity" :> l["perplexity"]) @@
    ("Diversity" :> l["diversity"]) @@
    ("Racial Bias" :> l["racial_bias"]) @@
    ("METEOR" :> l["meteor"]) @@
    ("CHRF" :> l["chrf"]) @@
    ("Flesch Reading Ease" :> l["flesch_ease"]) @@
    ("Flesch-Kincaid Grade" :> l["flesch_grade"]) @@
    ("Semantic Similarity" :> l["semantic_similarity"]) @@
    ("Factual Consistency" :> l["factual_consistency"]) @@
    ("Question Relevance" :> l["question_relevance"]) @@
    ("Context Relevance" :> l["context_relevance"]) @@
    ("Answer Relevance" :> l["answer_relevance"]) @@
    ("Toxicity" :> l["toxicity"])

L219 ==
    /\ pc = "L219"
    /\ result' = Report(locals)
    /\ locals' = <<>>
    /\ pc' = "returned"
    /\ UNCHANGED <<self, loads, punkt, op, args, invoked, pipeline_out, error>>

----------------------------------------------------------------------------
(* The per-metric methods called on their own *)

Direct(name, a, outcomes) ==
    /\ pc = "ready"
    /\ op' = name
    /\ args' = a
    /\ \E o \in outcomes :
         IF o.raised
         THEN pc' = "raised" /\ error' = name /\ UNCHANGED result
         ELSE pc' = "returned" /\ result' = o.value /\ UNCHANGED error
    /\ UNCHANGED <<self, loads, locals, invoked>>

\* Lists of candidates or references: empty or one text.
TextLists == {<<>>} \cup {<<t>> : t \in FacadeTexts}

Call_evaluate_bleu_rouge ==
    /\ pc = "ready"
    /\ \E candidates \in TextLists, references \in TextLists :
         Direct("evaluate_bleu_rouge", <<candidates, references>>,
                evaluate_bleu_rouge(candidates, references))
    /\ UNCHANGED <<punkt, pipeline_out>>

Call_evaluate_bert_score ==
    /\ pc = "ready"
    /\ \E candidates \in TextLists, references \in TextLists :
         Direct("evaluate_bert_score", <<candidates, references>>,
                evaluate_bert_score(candidates, references))
    /\ UNCHANGED <<punkt, pipeline_out>>

Call_evaluate_perplexity(inputs) ==
    /\ pc = "ready"
    /\ \E text \in inputs :
         Direct("evaluate_perplexity", <<text>>, {evaluate_perplexity(text)})
    /\ UNCHANGED <<punkt, pipeline_out>>

Call_evaluate_diversity(inputs) ==
    /\ pc = "ready"
    /\ \E texts \in inputs :
         Direct("evaluate_diversity", <<texts>>, {Returns(evaluate_diversity(texts))})
    /\ UNCHANGED <<punkt, pipeline_out>>

Call_evaluate_racial_bias ==
    /\ pc = "ready"
    /\ \E text \in FacadeTexts :
         Direct("evaluate_racial_bias", <<text>>, evaluate_racial_bias(text))
    /\ UNCHANGED <<punkt, pipeline_out>>

Call_evaluate_meteor ==
    /\ pc = "ready"
    /\ op' = "evaluate_meteor"
    /\ \E candidates \in TextLists, references \in TextLists :
         /\ args' = <<candidates, references>>
         /\ \E o \in evaluate_meteor(candidates, references) :
              /\ punkt' = o.punkt
              /\ IF o.raised
                 THEN pc' = "raised" /\ error' = "evaluate_meteor" /\ UNCHANGED result
                 ELSE pc' = "returned" /\ result' = o.value /\ UNCHANGED error
    /\ UNCHANGED <<self, loads, locals, invoked, pipeline_out>>

Call_evaluate_chrf ==
    /\ pc = "ready"
    /\ \E candidates \in TextLists, references \in TextLists :
         Direct("evaluate_chrf", <<candidates, references>>, evaluate_chrf(candidates, references))
    /\ UNCHANGED <<punkt, pipeline_out>>

Call_evaluate_readability ==
    /\ pc = "ready"
    /\ \E text \in FacadeTexts :
         Direct("evaluate_readability", <<text>>, evaluate_readability(text))
    /\ UNCHANGED <<punkt, pipeline_out>>

Call_evaluate_semantic_similarity ==
    /\ pc = "ready"
    /\ \E candidate \in FacadeTexts, reference \in FacadeTexts :
         Direct("evaluate_semantic_similarity", <<candidate, reference>>,
                evaluate_semantic_similarity(candidate, reference))
    /\ UNCHANGED <<punkt, pipeline_out>>

Call_evaluate_factual_consistency ==
    /\ pc = "ready"
    /\ \E candidate \in FacadeTexts, reference \in FacadeTexts,
          threshold \in Thresholds \cup {factual_consistency_threshold} :
         Direct("evaluate_factual_consistency", <<candidate, reference, threshold>>,
                evaluate_factual_consistency(candidate, reference, threshold))
    /\ UNCHANGED <<punkt, pipeline_out>>

Call_evaluate_question_relevance ==
    /\ pc = "ready"
    /\ \E question \in FacadeTexts, response \in FacadeTexts,
          threshold \in Thresholds \cup {question_relevance_threshold} :
         Direct("evaluate_question_relevance", <<question, response, threshold>>,
                evaluate_question_relevance(question, response, threshold))
    /\ UNCHANGED <<punkt, pipeline_out>>

Call_evaluate_context_relevance ==
    /\ pc = "ready"
    /\ \E context \in FacadeTexts, response \in FacadeTexts,
          threshold \in Thresholds \cup {context_relevance_threshold} :
         Direct("evaluate_context_relevance", <<context, response, threshold>>,
                evaluate_context_relevance(context, response, threshold))
    /\ UNCHANGED <<punkt, pipeline_out>>

Call_evaluate_answer_relevance ==
    /\ pc = "ready"
    /\ \E question \in FacadeTexts, response \in FacadeTexts,
          threshold \in Thresholds \cup {answer_relevance_threshold} :
         Direct("evaluate_answer_relevance", <<question, response, threshold>>,
                evaluate_answer_relevance(question, response, threshold))
    /\ UNCHANGED <<punkt, pipeline_out>>

Call_evaluate_toxicity ==
    /\ pc = "ready"
    /\ op' = "evaluate_toxicity"
    /\ \E text \in FacadeTexts :
         /\ args' = <<text>>
         /\ \E o \in evaluate_toxicity(text) :
              /\ pipeline_out' = o.out
              /\ IF o.raised
                 THEN pc' = "raised" /\ error' = "evaluate_toxicity" /\ UNCHANGED result
                 ELSE pc' = "returned" /\ result' = o.value /\ UNCHANGED error
    /\ UNCHANGED <<self, loads, punkt, locals, invoked>>

\* The caller takes the returned value, or handles the error, and goes on.
Resume ==
    /\ pc \in {"returned", "raised"}
    /\ pc' = "ready"
    /\ op' = ""
    /\ args' = <<>>
    /\ locals' = <<>>
    /\ invoked' = <<>>
    /\ pipeline_out' = NoPipelineOutput
    /\ result' = NoValue
    /\ error' = ""
    /\ UNCHANGED <<self, loads, punkt>>

----------------------------------------------------------------------------
(* Specifications *)

Construct == New \/ L18 \/ L19 \/ L20 \/ L21 \/ L22 \/ LoadFails

EvaluateAll ==
    \/ Call_evaluate_all
    \/ L204 \/ L205 \/ L206 \/ L207 \/ L208 \/ L209 \/ L210
    \/ L211 \/ L212 \/ L213 \/ L214 \/ L215 \/ L216 \/ L217 \/ L219

Metrics ==
    \/ Call_evaluate_bleu_rouge
    \/ Call_evaluate_bert_score
    \/ Call_evaluate_perplexity(FacadeTexts)
    \/ Call_evaluate_diversity(TextLists)
    \/ Call_evaluate_racial_bias
    \/ Call_evaluate_meteor
    \/ Call_evaluate_chrf
    \/ Call_evaluate_readability
    \/ Call_evaluate_semantic_similarity
    \/ Call_evaluate_factual_consistency
    \/ Call_evaluate_question_relevance
    \/ Call_evaluate_context_relevance
    \/ Call_evaluate_answer_relevance
    \/ Call_evaluate_toxicity

Next == Construct \/ EvaluateAll \/ Metrics \/ Resume

Spec == Init /\ [][Next]_vars

\* A constructed evaluator, as __init__ leaves it, with no call in progress.
InitReady ==
    /\ pc = "ready"
    /\ self = [gpt2_model |-> "gpt2", gpt2_tokenizer |-> "gpt2",
               bias_pipeline |-> "Hate-speech-CNERG/dehatebert-mono-english",
               sentence_transformer |-> [t \in FacadeTexts |-> <<1, 0>>],
               toxicity_pipeline |-> "unitary/toxic-bert"]
    /\ loads = [c \in Capabilities |-> IF c \in {"gpt2_model", "gpt2_tokenizer"} THEN 2 ELSE 1]
    /\ punkt = FALSE
    /\ Idle

\* evaluate_perplexity on texts of every length up to MaxTokens.
NextPerplexity == Call_evaluate_perplexity(PerplexityInputs) \/ Resume
SpecPerplexity == InitReady /\ [][NextPerplexity]_vars

\* evaluate_diversity on every list of short strings.
NextDiversity == Call_evaluate_diversity(DiversityInputs) \/ Resume
SpecDiversity == InitReady /\ [][NextDiversity]_vars

----------------------------------------------------------------------------
(* Properties *)

ReportKeys == {"BLEU", "ROUGE-1", "BERT P", "BERT R", "BERT F1", "Perplexity", "Diversity",
               "Racial Bias", "METEOR", "CHRF", "Flesch Reading Ease", "Flesch-Kincaid Grade",
               "Semantic Similarity", "Factual Consistency", "Question Relevance",
               "Context Relevance", "Answer Relevance", "Toxicity"}
BooleanKeys == {"Factual Consistency", "Question Relevance", "Context Relevance",
                "Answer Relevance"}

Returned(name) == pc = "returned" /\ op = name
Raised(name) == pc = "raised" /\ op = name

\* C1: a report returned by evaluate_all has exactly the 18 named keys; the four
\* relevance-style values are booleans and the other fourteen are numbers (the
\* diversity ratio a fraction with a positive denominator).
C1_ReportKeysAndTypes ==
    Returned("evaluate_all") =>
        /\ DOMAIN result = ReportKeys
        /\ Cardinality(ReportKeys) = 18
        /\ \A k \in BooleanKeys : result[k] \in BOOLEAN
        /\ \A k \in (ReportKeys \ BooleanKeys) \ {"Diversity"} : result[k] \in Int
        /\ result["Diversity"] \in [num : Nat, den : Nat \ {0}]

C1_Witness ==
    /\ Returned("evaluate_all")
    /\ result["Factual Consistency"] = FALSE
    /\ result["Question Relevance"] = TRUE
    /\ result["Toxicity"] = 50

\* The order in which evaluate_all invokes the metric methods.
MetricOrder == <<"evaluate_bleu_rouge", "evaluate_bert_score", "evaluate_perplexity",
                 "evaluate_diversity", "evaluate_racial_bias", "evaluate_meteor",
                 "evaluate_chrf", "evaluate_readability", "evaluate_semantic_similarity",
                 "evaluate_factual_consistency", "evaluate_question_relevance",
                 "evaluate_question_relevance", "evaluate_question_relevance",
                 "evaluate_toxicity">>

\* C2: evaluate_all invokes the metrics in one fixed order; when the k-th call
\* fails, evaluate_all fails with that error, nothing is returned (no partial
\* report either), and the k-th is the last metric invoked; it returns only after
\* all fourteen calls.
C2_FixedOrderNoIsolation ==
    op = "evaluate_all" =>
        /\ Len(invoked) <= Len(MetricOrder)
        /\ \A k \in DOMAIN invoked : invoked[k].op = MetricOrder[k]
        /\ pc = "raised" =>
              /\ result = NoValue
              /\ locals = <<>>
              /\ invoked # <<>>
              /\ error = invoked[Len(invoked)].op
        /\ pc = "returned" => Len(invoked) = Len(MetricOrder)

C2_Witness ==
    /\ Raised("evaluate_all")
    /\ error = "evaluate_meteor"
    /\ Len(invoked) = 6

\* The number of whitespace-separated tokens of a text: the positions where a
\* token starts.
TokenCount(text) ==
    Cardinality({i \in 1..Len(text) : text[i] # " " /\ (i = 1 \/ text[i - 1] = " ")})
TotalTokens(texts) == SumSeq([k \in DOMAIN texts |-> TokenCount(texts[k])])

\* C3 as stated: the diversity score lies in [0,1] and is 0 exactly when the
\* combined token sequence is empty.
C3_ZeroIffNoTokens ==
    Returned("evaluate_diversity") =>
        /\ 0 <= result.num /\ result.num <= result.den /\ result.den > 0
        /\ (result.num = 0) <=> (TotalTokens(args[1]) = 0)

\* C3 amended: the diversity score lies in [0,1] (it is below 1 whenever there is
\* a token) and is 0 exactly when the combined token sequence has fewer than two
\* tokens: a single token has no bigram.
C3_ZeroIffFewerThanTwoTokens ==
    Returned("evaluate_diversity") =>
        /\ 0 <= result.num /\ result.num <= result.den /\ result.den > 0
        /\ TotalTokens(args[1]) > 0 =>
              result.den = TotalTokens(args[1]) /\ result.num < result.den
        /\ (result.num = 0) <=> (TotalTokens(args[1]) < 2)

C3_Witness ==
    /\ Returned("evaluate_diversity")
    /\ Len(args[1]) = 2
    /\ TotalTokens(args[1]) = 1
    /\ result = [num |-> 0, den |-> 1]

\* C4: evaluate_perplexity completes, returning a value, for every token count
\* n >= 0, the empty string included.
C4_PerplexityCompletes ==
    (op = "evaluate_perplexity" /\ pc \in {"returned", "raised"}) => pc = "returned"

\* C5: when __init__ has run, every capability has been loaded exactly once.
C5_EachCapabilityLoadedOnce ==
    pc = "ready" => \A c \in Capabilities : loads[c] = 1

InMetricCall ==
    pc \in {"ready", "returned", "raised", "L204", "L205", "L206", "L207", "L208", "L209",
            "L210", "L211", "L212", "L213", "L214", "L215", "L216", "L217", "L219"}

\* C6: no step of a metric call on a constructed evaluator changes the model
\* handles or the process-wide state.
C6_MetricCallsChangeNothing ==
    [][InMetricCall => (self' = self /\ loads' = loads /\ punkt' = punkt)]_vars

LabelsNamingToxic == {<<"t", "o", "x", "i", "c">>,
                      <<"s", "e", "v", "e", "r", "e", "_", "t", "o", "x", "i", "c">>}

ToxicityOf(out) == IF out.label \in LabelsNamingToxic THEN out.score ELSE 0

\* C8: evaluate_toxicity returns a value in [0,1]: the classifier's score when its
\* top label contains "toxic", and 0 otherwise; so does the report's Toxicity.
C8_ToxicityScoreOrZero ==
    /\ Returned("evaluate_toxicity") =>
          /\ 0 <= result /\ result <= 100
          /\ result = ToxicityOf(pipeline_out)
    /\ Returned("evaluate_all") =>
          /\ 0 <= result["Toxicity"] /\ result["Toxicity"] <= 100
          /\ result["Toxicity"] = ToxicityOf(pipeline_out)

C8_Witness ==
    /\ Returned("evaluate_toxicity")
    /\ pipeline_out.label \in LabelsNamingToxic
    /\ pipeline_out.label # <<"t", "o", "x", "i", "c">>
    /\ result = 50

\* The token positions a window scores: the last trg_len positions of
\* [begin_loc, end_loc) (the others are masked with -100).
Scored(w) == (w.end_loc - w.trg_len)..(w.end_loc - 1)

\* C9: for n >= 1 tokens, every window [begin_loc, end_loc) is at most max_length
\* long and holds its scored positions; the scored ranges of the windows are
\* pairwise disjoint and cover 0..n-1, so the trg_len values sum to n, the final
\* end_loc, and the mean loss returned is the per-token loss.
C9_WindowsScoreEveryTokenOnce ==
    Returned("evaluate_perplexity") =>
        LET n  == Len(args[1])
            ws == Windows(n)
        IN /\ n >= 1
           /\ \A k \in DOMAIN ws :
                 /\ 0 <= ws[k].begin_loc /\ ws[k].begin_loc <= ws[k].end_loc - ws[k].trg_len
                 /\ ws[k].trg_len >= 1
                 /\ ws[k].end_loc - ws[k].begin_loc <= max_length
           /\ \A j \in DOMAIN ws, k \in DOMAIN ws : j # k => Scored(ws[j]) \cap Scored(ws[k]) = {}
           /\ UNION {Scored(ws[k]) : k \in DOMAIN ws} = 0..(n - 1)
           /\ SumSeq([k \in DOMAIN ws |-> ws[k].trg_len]) = n
           /\ ws[Len(ws)].end_loc = n
           /\ result = 100

C9_Witness ==
    /\ Returned("evaluate_perplexity")
    /\ Len(args[1]) = 1100
    /\ Len(Windows(1100)) = 3
    /\ Windows(1100)[3].begin_loc = 512
    /\ Windows(1100)[3].trg_len = 76

\* C10: in a report, Answer Relevance equals Question Relevance, both the check
\* similarity(question, response) >= 0.7; Context Relevance is that check on
\* (reference, response), made through evaluate_question_relevance: evaluate_all
\* never invokes evaluate_context_relevance or evaluate_answer_relevance.  Called
\* on their own, the three methods are the same check.
C10_RelevanceChecksAreOneCheck ==
    /\ Returned("evaluate_all") =>
          /\ result["Answer Relevance"] = result["Question Relevance"]
          /\ result["Question Relevance"] = (similarity(args.question, args.response) >= 70)
          /\ result["Context Relevance"] = (similarity(args.reference, args.response) >= 70)
          /\ invoked[11] = [op |-> "evaluate_question_relevance",
                            args |-> <<args.question, args.response>>]
          /\ invoked[12] = [op |-> "evaluate_question_relevance",
                            args |-> <<args.reference, args.response>>]
          /\ invoked[13] = invoked[11]
    /\ op = "evaluate_all" =>
          \A k \in DOMAIN invoked :
              invoked[k].op \notin {"evaluate_context_relevance", "evaluate_answer_relevance"}
    /\ (pc = "returned" /\ op \in {"evaluate_question_relevance", "evaluate_context_relevance",
                                   "evaluate_answer_relevance"}) =>
          result = (similarity(args[1], args[2]) >= args[3])

C10_Witness ==
    /\ Returned("evaluate_all")
    /\ args.question # args.reference
    /\ similarity(args.reference, args.response) = 70
    /\ result["Context Relevance"] = TRUE
    /\ result["Question Relevance"] = TRUE
    /\ result["Semantic Similarity"] = 70

====
